---------------------------- MODULE Spec2Model ----------------------------
(***************************************************************************)
(* Two independent programs of the repository are modelled here.           *)
(*                                                                         *)
(*  - runDockerGenerator (os_packages/docker_generator/run.ts): one run of *)
(*    the async function, one action per awaited call.  Specification      *)
(*    SpecDocker.                                                          *)
(*  - mappingFromFieldMap (rule_registry/.../mapping_from_field_map.ts):   *)
(*    invocations of the builder over a heap of JavaScript objects.        *)
(*    Specification SpecMapping.                                           *)
(***************************************************************************)
EXTENDS Integers, Sequences, FiniteSets, TLC

VARIABLES
    \* ---- runDockerGenerator ----
    flags,      \* the `flags` argument
    hostArch,   \* process.arch
    dpc,        \* position of the run
    tpl,        \* number of templates already written by the for-loop
    oplog,      \* the file-system / process calls made so far, in order
    thrown,     \* the error the run rejected with, or NoError
    \* ---- mappingFromFieldMap ----
    heap,       \* the JavaScript objects: heap[id] is a function key -> value
    decls,      \* the caller's declaration objects: field key -> object id
    input0,     \* what the caller's declarations held before any invocation
    dynamic,    \* the dynamic mode the caller passes
    results,    \* the invocations that returned, oldest first
    placed      \* number of forEach iterations run so far, over all invocations

dockerVars == <<flags, hostArch, dpc, tpl, oplog, thrown>>

mappingVars == <<heap, decls, input0, dynamic, results, placed>>

vars == <<flags, hostArch, dpc, tpl, oplog, thrown, heap, decls, input0,
          dynamic, results, placed>>

-----------------------------------------------------------------------------
(* runDockerGenerator                                                      *)

\* Number of entries of Object.entries(dockerTemplates).
NumTemplates == 2

Undefined == "undefined"
NoError == <<>>

\* The state of each program while only the other one runs.
IdleMapping ==
    /\ heap = <<>>
    /\ decls = [k \in {} |-> 0]
    /\ input0 = [k \in {} |-> 0]
    /\ dynamic = <<>>
    /\ results = <<>>
    /\ placed = 0

IdleDocker ==
    /\ flags = [architecture |-> Undefined, context |-> FALSE, image |-> FALSE,
                ubi |-> FALSE, ironbank |-> FALSE]
    /\ hostArch = "x64"
    /\ dpc = "returned"
    /\ tpl = 0
    /\ oplog = <<>>
    /\ thrown = NoError

\* JavaScript truthiness of an optional string.
Truthy(s) == s # Undefined /\ s # ""

\* const artifactArchitecture = flags.architecture === 'aarch64' ? 'aarch64' : 'x86_64'
artifactArchitecture(f) == IF f.architecture = "aarch64" THEN "aarch64" ELSE "x86_64"

\* artifactTarball, up to the version prefix
artifactTarball(f) == <<"kibana-linux", artifactArchitecture(f), "tar.gz">>

\* imageFlavor: '' + ('-ubi8' if ubi) + ('-ironbank' if ironbank)
imageFlavor(f) ==
    (IF f.ubi THEN <<"-ubi8">> ELSE <<>>) \o (IF f.ironbank THEN <<"-ironbank">> ELSE <<>>)

\* dockerBuildDir = build/kibana-docker/default${imageFlavor}
dockerBuildDir(f) == <<"default">> \o imageFlavor(f)

\* hostTarget[process.arch]
hostTarget(arch) ==
    CASE arch = "x64" -> "x64"
      [] arch = "arm64" -> "aarch64"
      [] OTHER -> Undefined

buildArchitectureSupported(f, arch) == hostTarget(arch) = f.architecture

SkipAlwaysWhenUnsupported(f, arch) == ~buildArchitectureSupported(f, arch)

\* if (flags.architecture && !buildArchitectureSupported) return;
ShouldSkip(f, arch) == Truthy(f.architecture) /\ ~buildArchitectureSupported(f, arch)

\* An error of a promisified fs call.
FsError(code, syscall) == [code |-> code, syscall |-> syscall]

Codes == {"ENOENT", "EACCES"}

CatchSwallowAll(e) == FALSE

CatchAnyENOENT(e) == e.code = "ENOENT"

\* catch (e) { if (e && e.code === 'ENOENT' && e.syscall === 'access') throw ... }
CatchRethrows(e) == e.code = "ENOENT" /\ e.syscall = "access"

\* The message of the error thrown by the catch block.
MissingArtifact(f) == <<"Kibana linux target is needed", artifactTarball(f)>>

\* One entry of the call log.
Call(op, arg, res) == [op |-> op, arg |-> arg, res |-> res]

Ok == "ok"

Outcomes == {Ok} \cup Codes

\* Where the run continues after the link succeeded (the for-loop over templates).
AfterLink == IF NumTemplates > 0 THEN "write" ELSE "copyBase"

\* if (flags.ironbank) { await copyAll(.../ironbank) }
AfterCopyBase(f) == IF f.ironbank THEN "copyIronbank" ELSE "chmod"

\* if (flags.context) { await bundleDockerFiles(...) }
AfterExec(f) == IF f.context THEN "bundle" ELSE "done"

AfterChmodAlwaysExec(f) == "exec"

\* if (flags.image) { await exec(...) }
AfterChmod(f) == IF f.image THEN "exec" ELSE AfterExec(f)

Architectures == {Undefined, "", "x64", "aarch64"}

HostArchs == {"x64", "arm64", "ia32"}

DockerInit ==
    /\ IdleMapping
    /\ flags \in [architecture : Architectures, context : BOOLEAN, image : BOOLEAN,
                  ubi : BOOLEAN, ironbank : BOOLEAN]
    /\ hostArch \in HostArchs
    /\ dpc = "start"
    /\ tpl = 0
    /\ oplog = <<>>
    /\ thrown = NoError

\* lines 80-88
CheckArchitecture ==
    /\ dpc = "start"
    /\ dpc' = IF ShouldSkip(flags, hostArch) THEN "returned" ELSE "access"
    /\ UNCHANGED <<flags, hostArch, tpl, oplog, thrown, mappingVars>>

\* The catch block of lines 99-105 for an error e of the try block.
Caught(e) ==
    IF CatchRethrows(e)
    THEN /\ dpc' = "threw"
         /\ thrown' = MissingArtifact(flags)
    ELSE /\ dpc' = "link"
         /\ thrown' = thrown

\* line 96: await accessAsync(resolve(artifactsDir, artifactTarball))
Access ==
    /\ dpc = "access"
    /\ \E r \in Outcomes :
        /\ oplog' = Append(oplog, Call("access", artifactTarball(flags), r))
        /\ IF r = Ok
           THEN dpc' = "mkdirp" /\ thrown' = thrown
           ELSE Caught(FsError(r, "access"))
    /\ UNCHANGED <<flags, hostArch, tpl, mappingVars>>

\* line 97: await mkdirp(dockerBuildDir)
Mkdirp ==
    /\ dpc = "mkdirp"
    /\ \E r \in Outcomes :
        /\ oplog' = Append(oplog, Call("mkdirp", dockerBuildDir(flags), r))
        /\ IF r = Ok
           THEN dpc' = "unlink" /\ thrown' = thrown
           ELSE Caught(FsError(r, "mkdir"))
    /\ UNCHANGED <<flags, hostArch, tpl, mappingVars>>

\* line 98: await unlinkAsync(resolve(dockerBuildDir, artifactTarball))
Unlink ==
    /\ dpc = "unlink"
    /\ \E r \in Outcomes :
        /\ oplog' = Append(oplog, Call("unlink", artifactTarball(flags), r))
        /\ IF r = Ok
           THEN dpc' = "link" /\ thrown' = thrown
           ELSE Caught(FsError(r, "unlink"))
    /\ UNCHANGED <<flags, hostArch, tpl, mappingVars>>

\* An awaited call outside any try block: a rejection rejects the run.
Await(op, arg, next) ==
    \E r \in Outcomes :
        /\ oplog' = Append(oplog, Call(op, arg, r))
        /\ IF r = Ok
           THEN dpc' = next /\ thrown' = thrown
           ELSE dpc' = "threw" /\ thrown' = <<op, r>>

\* line 109: await linkAsync(artifact, dockerBuildDir/artifact)
Link ==
    /\ dpc = "link"
    /\ Await("link", artifactTarball(flags), AfterLink)
    /\ UNCHANGED <<flags, hostArch, tpl, mappingVars>>

\* lines 113-115: one iteration of the for-loop over the templates
WriteTemplate ==
    /\ dpc = "write"
    /\ tpl < NumTemplates
    /\ Await("write", <<"template", ToString(tpl + 1)>>, IF tpl + 1 < NumTemplates THEN "write" ELSE "copyBase")
    /\ tpl' = tpl + 1
    /\ UNCHANGED <<flags, hostArch, mappingVars>>

\* lines 120-123
CopyBase ==
    /\ dpc = "copyBase"
    /\ Await("copyBase", dockerBuildDir(flags), AfterCopyBase(flags))
    /\ UNCHANGED <<flags, hostArch, tpl, mappingVars>>

\* lines 125-130
CopyIronbank ==
    /\ dpc = "copyIronbank"
    /\ Await("copyIronbank", dockerBuildDir(flags), "chmod")
    /\ UNCHANGED <<flags, hostArch, tpl, mappingVars>>

\* line 136
Chmod ==
    /\ dpc = "chmod"
    /\ Await("chmod", dockerBuildDir(flags), AfterChmod(flags))
    /\ UNCHANGED <<flags, hostArch, tpl, mappingVars>>

\* lines 139-144
Exec ==
    /\ dpc = "exec"
    /\ Await("exec", dockerBuildDir(flags), AfterExec(flags))
    /\ UNCHANGED <<flags, hostArch, tpl, mappingVars>>

\* lines 147-149
Bundle ==
    /\ dpc = "bundle"
    /\ Await("bundle", dockerBuildDir(flags), "done")
    /\ UNCHANGED <<flags, hostArch, tpl, mappingVars>>

DockerNext ==
    \/ CheckArchitecture
    \/ Access
    \/ Mkdirp
    \/ Unlink
    \/ Link
    \/ WriteTemplate
    \/ CopyBase
    \/ CopyIronbank
    \/ Chmod
    \/ Exec
    \/ Bundle

-----------------------------------------------------------------------------
(* mappingFromFieldMap                                                     *)
(*                                                                         *)
(* A string is the sequence of its tokens: "." is one token and every      *)
(* identifier between dots is one token, so "a.b" is <<"a", ".", "b">>.    *)
(* A value is a primitive (ref = 0, s its string form) or a reference to   *)
(* the heap object ref.  An object is a function from keys to values.      *)

\* Largest number of entries of the caller's field table.
MaxFields == 3

\* Largest number of forEach iterations over all invocations of one behaviour.
MaxPlacements == 4

Dot == "."

Str(tok) == <<tok>>

Prim(s) == [ref |-> 0, s |-> s]

Ref(id) == [ref |-> id, s |-> <<>>]

UndefinedVal == Prim(Str("undefined"))

\* lodash isObject
IsObject(v) == v.ref # 0

EmptyObj == [k \in {} |-> UndefinedVal]

\* obj[key] = value
Put(obj, key, value) == (key :> value) @@ obj

kName == Str("name")
kRequired == Str("required")
kArray == Str("array")
kType == Str("type")
kProperties == Str("properties")
kDynamic == Str("dynamic")

\* String.prototype.split(sep) for a one-token separator.
RECURSIVE Split(_, _)
Split(s, sep) ==
    IF \A i \in 1..Len(s) : s[i] # sep
    THEN <<s>>
    ELSE LET i == CHOOSE j \in 1..Len(s) :
                      s[j] = sep /\ \A k \in 1..(j - 1) : s[k] # sep
         IN <<SubSeq(s, 1, i - 1)>> \o Split(SubSeq(s, i + 1, Len(s)), sep)

\* Array.prototype.join(sep)
RECURSIVE Join(_, _)
Join(parts, sep) ==
    IF Len(parts) = 0 THEN <<>>
    ELSE IF Len(parts) = 1 THEN parts[1]
    ELSE parts[1] \o sep \o Join(Tail(parts), sep)

\* field.name.split('.').join('.properties.')
PathString(name) == Join(Split(name, Dot), <<Dot, "properties", Dot>>)

\* lodash castPath(path, object): a string that is itself a key of the object, or has
\* no dot, is one key; otherwise stringToPath splits it at the dots.
CastPath(path, obj) ==
    IF path \in DOMAIN obj \/ (\A i \in 1..Len(path) : path[i] # Dot)
    THEN <<path>>
    ELSE Split(path, Dot)

\* lodash baseSet: an existing object on the path is reused, anything else is replaced
\* by a new object.
Reuses(h, objValue) == IsObject(objValue)

\* lodash baseSet(object, path, value) from position index of the path
RECURSIVE baseSet(_, _, _, _, _)
baseSet(h, nested, path, index, value) ==
    LET key == path[index] IN
    IF index = Len(path)
    THEN [h EXCEPT ![nested] = Put(@, key, value)]
    ELSE LET objValue == IF key \in DOMAIN h[nested] THEN h[nested][key]
                                                     ELSE UndefinedVal
         IN IF Reuses(h, objValue)
            THEN baseSet(h, objValue.ref, path, index + 1, value)
            ELSE LET n == Len(h) + 1
                     h1 == Append([h EXCEPT ![nested] = Put(@, key, Ref(n))], EmptyObj)
                 IN baseSet(h1, n, path, index + 1, value)

\* lodash set(object, path, value)
set(h, object, path, value) == baseSet(h, object, CastPath(path, h[object]), 1, value)

\* const { name, required, array, ...rest } = field
Rest(field) == [k \in DOMAIN field \ {kName, kRequired, kArray} |-> field[k]]

\* { name: key, ...field }
Spread(key, field) == field @@ (kName :> Prim(key))

\* The deep value of v: what structural equality compares.
ObjMark == Str("#object")

RECURSIVE Snap(_, _)
Snap(h, v) ==
    IF v.ref = 0
    THEN [leaf |-> v.s, kids |-> [k \in {} |-> 0]]
    ELSE [leaf |-> ObjMark, kids |-> [k \in DOMAIN h[v.ref] |-> Snap(h, h[v.ref][k])]]

\* The objects reachable from object id.
RECURSIVE Reach(_, _)
Reach(h, id) ==
    {id} \cup UNION {Reach(h, h[id][k].ref) : k \in {x \in DOMAIN h[id] : IsObject(h[id][x])}}

ReusedMappings(h, dyn) ==
    IF \E i \in 1..Len(h) : kDynamic \in DOMAIN h[i]
    THEN LET m == CHOOSE i \in 1..Len(h) :
                      kDynamic \in DOMAIN h[i]
                      /\ \A j \in 1..(i - 1) : kDynamic \notin DOMAIN h[j]
         IN [heap |-> [h EXCEPT ![m] = Put(@, kDynamic, Prim(dyn))], root |-> m]
    ELSE LET p == Len(h) + 1
         IN [heap |-> h \o <<EmptyObj, (kDynamic :> Prim(dyn)) @@ (kProperties :> Ref(p))>>,
             root |-> p + 1]

\* lines 16-19: const mappings = { dynamic, properties: {} }
NewMappings(h, dyn) ==
    LET p == Len(h) + 1
    IN [heap |-> h \o <<EmptyObj, (kDynamic :> Prim(dyn)) @@ (kProperties :> Ref(p))>>,
        root |-> p + 1]

\* ---- the inputs ----

NameA == <<"a">>
NameAB == <<"a", Dot, "b">>
NameAC == <<"a", Dot, "c">>
NameABC == <<"a", Dot, "b", Dot, "c">>

NameList == <<NameA, NameAB, NameAC, NameABC>>

NameUniverse == {NameList[i] : i \in 1..Len(NameList)}

Dynamics == {Str("strict"), Str("false")}

\* The `type` attribute given to the declaration of NameList[i].
TypeList == <<"keyword", "text", "long", "date">>

TypeOf(name) == TypeList[CHOOSE i \in 1..Len(NameList) : NameList[i] = name]

\* The heap with one more declaration; the declaration is its last object.
\*   leaf:   { type: <type>, required: true }
\*   nested: { type: <type>, array: false, properties: { x: { type: 'keyword' } } }
AllocDecl(h, name, shape) ==
    IF shape = "leaf"
    THEN Append(h, (kType :> Prim(Str(TypeOf(name)))) @@ (kRequired :> Prim(Str("true"))))
    ELSE LET n == Len(h)
         IN h \o << (kType :> Prim(Str("keyword"))),
                    (Str("x") :> Ref(n + 1)),
                    (kType :> Prim(Str(TypeOf(name)))) @@ (kArray :> Prim(Str("false")))
                        @@ (kProperties :> Ref(n + 2)) >>

RECURSIVE BuildPool(_, _, _, _)
BuildPool(names, sh, h, d) ==
    IF names = <<>> THEN [heap |-> h, decls |-> d]
    ELSE LET h1 == AllocDecl(h, Head(names), sh[Head(names)])
         IN BuildPool(Tail(names), sh, h1, (Head(names) :> Len(h1)) @@ d)

\* The sequences without repetition over the set S, of at most max elements.
Orders(S, max) ==
    UNION {{o \in [1..n -> S] : \A i, j \in 1..n : i # j => o[i] # o[j]} :
           n \in 1..(IF Cardinality(S) < max THEN Cardinality(S) ELSE max)}

MappingInit ==
    /\ IdleDocker
    /\ \E S \in SUBSET NameUniverse :
        /\ Cardinality(S) \in 1..MaxFields
        /\ \E nested \in {<<>>} \cup S :
            LET sh == [n \in S |-> IF n = nested THEN "nested" ELSE "leaf"]
                b == BuildPool(SelectSeq(NameList, LAMBDA n : n \in S), sh, <<>>,
                               [k \in {} |-> 0])
            IN /\ heap = b.heap
               /\ decls = b.decls
               /\ input0 = [n \in S |-> Snap(b.heap, Ref(b.decls[n]))]
    /\ dynamic \in Dynamics
    /\ results = <<>>
    /\ placed = 0

\* lines 21-27: const fields = Object.keys(fieldMap).map((key) => ({ name: key, ...field }))
Fields(h, d, keys) == [i \in 1..Len(keys) |-> Spread(keys[i], h[d[keys[i]]])]

\* lines 30-32: the body of the forEach callback for one field
PlaceField(h, properties, field) ==
    LET rest == Len(h) + 1
    IN set(Append(h, Rest(field)), properties, PathString(field[kName].s), Ref(rest))

\* lines 29-33: fields.forEach(...) from position i on
RECURSIVE forEach(_, _, _, _)
forEach(h, properties, fs, i) ==
    IF i > Len(fs) THEN h
    ELSE forEach(PlaceField(h, properties, fs[i]), properties, fs, i + 1)

\* lines 12-36: one invocation mappingFromFieldMap(fieldMap, dynamic), where fieldMap
\* enumerates the keys `keys` and holds the caller's declaration objects.
mappingFromFieldMap ==
    \E keys \in Orders(DOMAIN decls, MaxPlacements - placed) :
        /\ LET m == NewMappings(heap, dynamic)
           IN /\ heap' = forEach(m.heap, m.heap[m.root][kProperties].ref,
                                 Fields(m.heap, decls, keys), 1)
              /\ results' = Append(results,
                    [keys |-> keys, dynamic |-> dynamic, root |-> m.root,
                     input |-> [i \in 1..Len(keys) |-> Snap(heap, Ref(decls[keys[i]]))],
                     snap |-> Snap(heap', Ref(m.root))])
        /\ placed' = placed + Len(keys)
    /\ UNCHANGED <<decls, input0, dynamic, dockerVars>>

MappingNext == mappingFromFieldMap

SpecMapping == MappingInit /\ [][MappingNext]_vars

SpecDocker == DockerInit /\ [][DockerNext]_vars

----------------------------------------------------------------------------------------------------------------------------------------
(* Properties of mappingFromFieldMap (checked under SpecMapping)           *)
(*                                                                         *)
(* A result is read through its deep value r.snap, taken when the          *)
(* invocation returned.  The expectations below are written out per field  *)
(* name, independently of PathString and set.                              *)

Missing == [leaf |-> Str("#missing"), kids |-> [k \in {} |-> 0]]

\* The node reached from node by following the keys of path, or Missing.
RECURSIVE Descend(_, _)
Descend(node, path) ==
    IF path = <<>> THEN node
    ELSE IF Head(path) \in DOMAIN node.kids
         THEN Descend(node.kids[Head(path)], Tail(path))
         ELSE Missing

\* properties.<s1>.properties.<s2>...properties.<sn> for the segments of each name.
ClaimedPath(name) ==
    CASE name = NameA -> <<kProperties, Str("a")>>
      [] name = NameAB -> <<kProperties, Str("a"), kProperties, Str("b")>>
      [] name = NameAC -> <<kProperties, Str("a"), kProperties, Str("c")>>
      [] name = NameABC ->
            <<kProperties, Str("a"), kProperties, Str("b"), kProperties, Str("c")>>

\* The name made of all segments but the last, and the last segment.
Parent(name) ==
    CASE name = NameA -> <<>>
      [] name = NameAB -> NameA
      [] name = NameAC -> NameA
      [] name = NameABC -> NameAB

LastSegment(name) ==
    CASE name = NameA -> Str("a")
      [] name = NameAB -> Str("b")
      [] name = NameAC -> Str("c")
      [] name = NameABC -> Str("c")

\* The names that are proper dotted prefixes of name.
ProperPrefixes(name) ==
    CASE name = NameA -> {}
      [] name = NameAB -> {NameA}
      [] name = NameAC -> {NameA}
      [] name = NameABC -> {NameA, NameAB}

Keys(r) == {r.keys[i] : i \in 1..Len(r.keys)}

\* The declaration the table of invocation r held under name, as a deep value.
Declared(r, name) == r.input[CHOOSE i \in 1..Len(r.keys) : r.keys[i] = name]

\* A declaration's attributes with `required` and `array` removed.
Stripped(d) ==
    [leaf |-> ObjMark, kids |-> [k \in DOMAIN d.kids \ {kRequired, kArray} |-> d.kids[k]]]

\* C1: in every returned tree, the node at properties.<s1>...properties.<sn> of every
\* field of the table is exactly the field's declaration without `required` and
\* `array`.
C1_LeafExactlyStripped ==
    \A n \in 1..Len(results) :
        \A name \in Keys(results[n]) :
            Descend(results[n].snap, ClaimedPath(name)) = Stripped(Declared(results[n], name))

\* C2: two invocations whose tables hold the same entries, in whatever key order,
\* with the same dynamic mode, return structurally equal trees.
C2_OrderIndependent ==
    \A m, n \in 1..Len(results) :
        ( /\ Keys(results[m]) = Keys(results[n])
          /\ \A name \in Keys(results[m]) :
                Declared(results[m], name) = Declared(results[n], name)
          /\ results[m].dynamic = results[n].dynamic )
        => results[m].snap = results[n].snap

\* C3: in every returned tree, two fields of the table with the same leading segments
\* are both under the one `properties` node of that prefix.
C3_SharedPrefixMerged ==
    \A n \in 1..Len(results) :
        \A f, g \in Keys(results[n]) :
            (f # g /\ Parent(f) # <<>> /\ Parent(f) = Parent(g)) =>
                LET node == Descend(results[n].snap, ClaimedPath(Parent(f)) \o <<kProperties>>)
                IN /\ node.leaf = ObjMark
                   /\ LastSegment(f) \in DOMAIN node.kids
                   /\ LastSegment(g) \in DOMAIN node.kids

\* C4: in every returned tree, every field's attributes are at
\* properties.<s1>...properties.<sn>, every node of a leading segment holds, besides
\* `properties`, only what a declaration of the table put there, and the root holds the
\* dynamic mode that was passed.
C4_PlacedAtPath ==
    \A n \in 1..Len(results) :
        LET r == results[n] IN
        /\ Descend(r.snap, <<kDynamic>>) = Snap(<<>>, Prim(r.dynamic))
        /\ \A name \in Keys(r) :
            LET node == Descend(r.snap, ClaimedPath(name))
                want == Stripped(Declared(r, name))
            IN /\ \A k \in DOMAIN want.kids :
                     k \in DOMAIN node.kids /\ node.kids[k] = want.kids[k]
               /\ \A p \in ProperPrefixes(name) :
                     LET pn == Descend(r.snap, ClaimedPath(p))
                     IN /\ kProperties \in DOMAIN pn.kids
                        /\ DOMAIN pn.kids \ {kProperties} \subseteq
                              (IF p \in Keys(r) THEN DOMAIN Stripped(Declared(r, p)).kids
                                                ELSE {})

\* C5: the caller's declarations hold what they held before any invocation, every
\* returned tree holds what it held when it was returned, and no object is reachable
\* from two returned trees or from a returned tree and a declaration.
C5_SideEffectFree ==
    /\ \A name \in DOMAIN decls : Snap(heap, Ref(decls[name])) = input0[name]
    /\ \A n \in 1..Len(results) : Snap(heap, Ref(results[n].root)) = results[n].snap
    /\ \A m, n \in 1..Len(results) :
          m # n => Reach(heap, results[m].root) \cap Reach(heap, results[n].root) = {}
    /\ \A n \in 1..Len(results) : \A name \in DOMAIN decls :
          Reach(heap, results[n].root) \cap Reach(heap, decls[name]) = {}

\* C6: two invocations with the same table (same keys in the same order, same
\* declarations) and the same dynamic mode returned structurally equal trees, whatever
\* was invoked before or between them; and two invocations in a row on the same keys
\* of the caller's table returned structurally equal trees.
C6_SameArgumentsSameTree ==
    /\ \A m, n \in 1..Len(results) :
          ( /\ results[m].keys = results[n].keys
            /\ results[m].input = results[n].input
            /\ results[m].dynamic = results[n].dynamic )
          => results[m].snap = results[n].snap
    /\ \A m \in 1..(Len(results) - 1) :
          ( /\ results[m].keys = results[m + 1].keys
            /\ results[m].dynamic = results[m + 1].dynamic )
          => results[m].snap = results[m + 1].snap

C6_Witness ==
    \E m, n \in 1..Len(results) :
        /\ m + 1 < n
        /\ results[m].keys = results[n].keys
        /\ results[m].input = results[n].input
        /\ results[m + 1].keys # results[m].keys
        /\ results[m].snap = results[n].snap

-----------------------------------------------------------------------------
(* Properties of runDockerGenerator (checked under SpecDocker)             *)

PrepareOps == {"access", "mkdirp", "unlink"}

MainOps == {"link", "write", "copyBase", "copyIronbank", "chmod", "exec", "bundle"}

MissingArtifactMessage == "Kibana linux target is needed"

\* Call op was made before position j of the log and succeeded.
OkBefore(op, j) == \E i \in 1..(j - 1) : oplog[i].op = op /\ oplog[i].res = Ok

\* Template t was written before position j of the log.
WrittenBefore(t, j) ==
    \E i \in 1..(j - 1) :
        /\ oplog[i].op = "write"
        /\ oplog[i].arg = <<"template", ToString(t)>>
        /\ oplog[i].res = Ok

\* C7: once the access check of the artifact tarball has failed with ENOENT, the run
\* has ended with the 'Kibana linux target ... is needed' error naming that tarball,
\* and the access check is the only call the run ever made.
C7_MissingArtifactAborts ==
    \A i \in 1..Len(oplog) :
        (oplog[i].op = "access" /\ oplog[i].res = "ENOENT") =>
            /\ dpc = "threw"
            /\ thrown = <<MissingArtifactMessage, oplog[i].arg>>
            /\ Len(oplog) = 1

C7_Witness ==
    /\ dpc = "threw"
    /\ Len(oplog) = 1
    /\ oplog[1].op = "access"
    /\ oplog[1].res = "ENOENT"

\* C8: the calls of a run are made in the fixed order link, templates, copies, chmod,
\* exec, bundle, none of them twice: a template is written only after the link
\* succeeded; chmod only after every template was written and the base resources
\* copied, with the ironbank resources copied iff flags.ironbank; exec only if
\* flags.image and after chmod; bundle only if flags.context, after chmod and after
\* exec when flags.image; and a failed call is the last call of the run.
C8_FixedOrder ==
    /\ \A i, j \in 1..Len(oplog) :
          (i < j /\ oplog[i].op = oplog[j].op) =>
              (oplog[i].op = "write" /\ oplog[i].arg # oplog[j].arg)
    /\ \A j \in 1..Len(oplog) :
          /\ oplog[j].op = "write" => OkBefore("link", j)
          /\ oplog[j].op = "copyBase" => OkBefore("link", j)
          /\ oplog[j].op = "copyIronbank" => flags.ironbank
          /\ oplog[j].op = "chmod" =>
                /\ \A t \in 1..NumTemplates : WrittenBefore(t, j)
                /\ OkBefore("copyBase", j)
                /\ OkBefore("copyIronbank", j) <=> flags.ironbank
          /\ oplog[j].op = "exec" => (flags.image /\ OkBefore("chmod", j))
          /\ oplog[j].op = "bundle" =>
                /\ flags.context
                /\ OkBefore("chmod", j)
                /\ flags.image => OkBefore("exec", j)
          /\ (oplog[j].op \in MainOps /\ oplog[j].res # Ok) =>
                (j = Len(oplog) /\ dpc = "threw")

C8_Witness ==
    /\ dpc = "done"
    /\ flags.image /\ flags.context /\ flags.ironbank
    /\ oplog[Len(oplog)].op = "bundle"

\* The docker architecture the host maps to, as the claim states it.
ClaimedDockerArch(arch) ==
    CASE arch = "x64" -> "x64"
      [] arch = "arm64" -> "aarch64"
      [] OTHER -> "none"

Given(a) == a # Undefined /\ a # ""

\* C9: past the architecture check, a run whose flags.architecture is given and differs
\* from the docker architecture of the host has returned without error and without
\* making any call; a run whose flags.architecture is not given has not returned there:
\* it is at the access check or made it as its first call.
C9_ArchitectureGate ==
    dpc # "start" =>
        /\ (Given(flags.architecture) /\ flags.architecture # ClaimedDockerArch(hostArch)) =>
              (dpc = "returned" /\ oplog = <<>> /\ thrown = NoError)
        /\ ~Given(flags.architecture) =>
              (dpc = "access" \/ (oplog # <<>> /\ oplog[1].op = "access"))

C9_Witness ==
    /\ dpc = "returned"
    /\ Given(flags.architecture)
    /\ hostArch = "arm64"

\* The number of calls of the preparation step in the log.
PrepareCalls == Cardinality({i \in 1..Len(oplog) : oplog[i].op \in PrepareOps})

\* C10: when the artifact tarball is accessible, the call that follows the preparation
\* step is the link, whether mkdirp or unlink succeeded or failed; the run holds the
\* missing-artifact error exactly when the access check failed with ENOENT, and a run
\* that ended in the preparation step ended there.
C10_PrepareOnlyRaisesMissingArtifact ==
    /\ (oplog # <<>> /\ oplog[1].op = "access" /\ oplog[1].res = Ok /\ dpc \notin PrepareOps) =>
          \/ (dpc = "link" /\ Len(oplog) = PrepareCalls)
          \/ (Len(oplog) > PrepareCalls /\ oplog[PrepareCalls + 1].op = "link")
    /\ (thrown # NoError /\ thrown[1] = MissingArtifactMessage) <=>
          (oplog # <<>> /\ oplog[1].op = "access" /\ oplog[1].res = "ENOENT")
    /\ (dpc = "threw" /\ oplog[Len(oplog)].op \in PrepareOps) =>
          (oplog[Len(oplog)].op = "access" /\ oplog[Len(oplog)].res = "ENOENT")

C10_Witness ==
    \E i \in 1..(Len(oplog) - 1) :
        /\ oplog[i].op = "unlink"
        /\ oplog[i].res = "ENOENT"
        /\ oplog[i + 1].op = "link"

=============================================================================
